---------------------------- MODULE Spec2Model ----------------------------
(***************************************************************************)
(* PlanetSim (src/src/main.rs): plate generation, the cube-sphere chunk    *)
(* meshes, and apply_tectonic_deformation (domain warp, two-nearest-plate  *)
(* scan, base height and beach/shelf blend, tectonics rule table, detail   *)
(* noise, height floor, biome colour).                                     *)
(*                                                                         *)
(* Numbers.  The program computes in f32.  The model computes in fixed     *)
(* point: every scalar is an integer number of thousandths (0.45 is 450,   *)
(* RADIUS 30.0 is 30000), a product is rescaled by Mul and a quotient by   *)
(* Div, both rounding towards minus infinity.  Every literal of the code   *)
(* that the model uses is a whole number of thousandths, so comparisons    *)
(* against the code's thresholds are exact.  sin(f * PI) is SinPi, exact   *)
(* at f = 0, 1/6, 1/2, 5/6, 1 and within 0.002 elsewhere.                  *)
(***************************************************************************)
EXTENDS Integers, Sequences, FiniteSets, TLC

\* 1.0 in thousandths.
One == 10 * 10 * 10

Mul(a, b) == (a * b) \div One
Div(a, b) == (a * One) \div b
Abs(a) == IF a < 0 THEN -a ELSE a
Max(a, b) == IF a >= b THEN a ELSE b
Min(a, b) == IF a <= b THEN a ELSE b
\* f32::clamp(lo, hi)
Clamp(a, lo, hi) == Max(lo, Min(a, hi))

\* f32::sqrt on thousandths-squared: the floor of the square root.
RECURSIVE SqrtBetween(_, _, _)
SqrtBetween(n, lo, hi) ==
    IF lo >= hi THEN lo
    ELSE LET mid == (lo + hi + 1) \div 2
         IN  IF mid * mid <= n THEN SqrtBetween(n, mid, hi)
                               ELSE SqrtBetween(n, lo, mid - 1)
Sqrt(n) == SqrtBetween(n, 0, Min(n, 46340))

\* (f * std::f32::consts::PI).sin() for f in [0, 1]: Bhaskara's rational form
\* 16q / (5 - 4q) with q = f(1 - f), reduced by 4.
SinPi(f) ==
    LET q == f * (One - f)
    IN  (4 * One * q) \div (1250 * One - q)

(***************************************************************************)
(* Vec3                                                                    *)
(***************************************************************************)
VAdd(a, b) == <<a[1] + b[1], a[2] + b[2], a[3] + b[3]>>
VNeg(a) == <<-a[1], -a[2], -a[3]>>
\* Vec3 * f32
VScale(a, s) == <<Mul(a[1], s), Mul(a[2], s), Mul(a[3], s)>>
Dot(a, b) == Mul(a[1], b[1]) + Mul(a[2], b[2]) + Mul(a[3], b[3])
Length(a) == Sqrt(a[1] * a[1] + a[2] * a[2] + a[3] * a[3])
Normalize(a) ==
    LET len == Length(a)
    IN  <<Div(a[1], len), Div(a[2], len), Div(a[3], len)>>
Distance(a, b) == Length(VAdd(a, VNeg(b)))

(***************************************************************************)
(* Program constants                                                       *)
(***************************************************************************)
RADIUS == 30000
\* f32::MAX, the initial dist_1 and dist_2.  The model's largest scalar: above
\* every distance (at most 2.0), and small enough for Div not to overflow.
F32_MAX == 2000000

Oceanic == "Oceanic"
Continental == "Continental"
PlateType == {Oceanic, Continental}

(***************************************************************************)
(* apply_tectonic_deformation, steps 3 to 5 and the colour                 *)
(***************************************************************************)
edge_threshold == 450

\* Step 3: the base constant of p1's type and the beach/shelf/mountain blend.
BaseHeight(p1t) == IF p1t = Continental THEN 120 ELSE -350

\* Step 3 with the factors left unclamped.
BlendHeightNoClamp(p1t, p2t, bd) ==
    LET h == BaseHeight(p1t)
    IN  IF p1t = Continental /\ p2t = Oceanic
        THEN Mul(h, Div(bd, 200)) - Mul(One - Div(bd, 200), 50)
        ELSE IF p1t = Oceanic /\ p2t = Continental
        THEN Mul(h, Div(bd, 250)) - Mul(One - Div(bd, 250), 100)
        ELSE IF p1t = Continental /\ p2t = Continental
        THEN Mul(h, Div(bd, 100)) + Mul(One - Div(bd, 100), 300)
        ELSE Mul(h, Div(bd, 250)) + Mul(One - Div(bd, 250), 10)

BlendHeight(p1t, p2t, bd) ==
    LET h == BaseHeight(p1t)
    IN  IF p1t = Continental /\ p2t = Oceanic
        THEN LET beach_factor == Clamp(Div(bd, 200), 0, One)
             IN  Mul(h, beach_factor) - Mul(One - beach_factor, 50)
        ELSE IF p1t = Oceanic /\ p2t = Continental
        THEN LET shelf_factor == Clamp(Div(bd, 250), 0, One)
             IN  Mul(h, shelf_factor) - Mul(One - shelf_factor, 100)
        ELSE IF p1t = Continental /\ p2t = Continental
        THEN LET mountain_factor == Clamp(Div(bd, 100), 0, One)
             IN  Mul(h, mountain_factor) + Mul(One - mountain_factor, 300)
        ELSE LET mountain_factor == Clamp(Div(bd, 250), 0, One)
             IN  Mul(h, mountain_factor) + Mul(One - mountain_factor, 10)

\* f of step 4.
BoundaryF(bd) == Clamp(One - Div(bd, edge_threshold), 0, One)

\* mountain_noise with a bias of 0.4.
MountainNoiseLowBias(sample) == 400 + Mul(sample, 1200)
\* mountain_noise of step 4, from the noise sample at frequency 15.
MountainNoise(sample) == 600 + Mul(sample, 1200)

\* The four arms of the match of step 4: what each adds to h at this f.
RidgeCC(f, mn) == Mul(Mul(Mul(SinPi(f), SinPi(f)), 400), mn)
MountainCO(f, mn) ==
    LET m_zone == Clamp(Mul(f - 200, 2 * One), 0, One)
        mountain_shape == Mul(SinPi(m_zone), SinPi(m_zone))
    IN  Mul(Mul(mountain_shape, 300), mn)
TrenchOC(f) ==
    LET trench_f == Clamp(One - Mul(Abs(f - 500), 2 * One), 0, One)
    IN  -Mul(trench_f, 250)
RidgeOO(f, mn) == Mul(Mul(SinPi(f), 200), mn)

\* Step 4: what the tectonics step adds to h.
TectonicDelta(p1t, p2t, bd, dot, sample) ==
    IF bd < edge_threshold
    THEN LET f == BoundaryF(bd)
             mn == MountainNoise(sample)
         IN  IF p1t = Continental /\ p2t = Continental
             THEN (IF dot < 100 THEN RidgeCC(f, mn) ELSE 0)
             ELSE IF p1t = Continental /\ p2t = Oceanic
             THEN (IF dot < 0 THEN MountainCO(f, mn) ELSE 0)
             ELSE IF p1t = Oceanic /\ p2t = Continental
             THEN (IF dot < 0 THEN TrenchOC(f) ELSE 0)
             ELSE (IF dot < -200 THEN RidgeOO(f, mn) ELSE 0)
    ELSE 0

\* Step 5 without the floor.
FinalHeightNoFloor(h, detail_noise) == h + Mul(detail_noise, 350)
\* Step 5: h.max(-0.9) after the detail noise.
FinalHeight(h, detail_noise) == Max(h + Mul(detail_noise, 350), -900)

\* The colour match on final_h; a colour is its sRGB triple.
DeepTrench == <<0, 30, 120>>
Ocean      == <<10, 100, 300>>
Shallow    == <<50, 250, 500>>
Beach      == <<850, 750, 500>>
Plains     == <<200, 450, 150>>
Mountains  == <<400, 350, 300>>
HighRock   == <<300, 250, 200>>
Snow       == <<950, 950, 1000>>

\* The colour match with every guard strict.
BiomeColorStrict(x) ==
    IF x < -450 THEN DeepTrench
    ELSE IF x < -180 THEN Ocean
    ELSE IF x < 0 THEN Shallow
    ELSE IF x < 35 THEN Beach
    ELSE IF x < 180 THEN Plains
    ELSE IF x < 400 THEN Mountains
    ELSE IF x < 600 THEN HighRock
    ELSE Snow
BiomeColor(x) ==
    IF x <= -450 THEN DeepTrench
    ELSE IF x <= -180 THEN Ocean
    ELSE IF x < 0 THEN Shallow
    ELSE IF x < 35 THEN Beach
    ELSE IF x < 180 THEN Plains
    ELSE IF x < 400 THEN Mountains
    ELSE IF x < 600 THEN HighRock
    ELSE Snow

\* color.to_linear().to_f32_array(): the value pushed to new_colors.
ToLinear(c) == <<"linear", c>>

\* Steps 3 to 5 for one point, every intermediate kept.
Synthesize(p1t, p2t, bd, dot, sample, detail_noise) ==
    LET h3 == BlendHeight(p1t, p2t, bd)
        h4 == h3 + TectonicDelta(p1t, p2t, bd, dot, sample)
        fh == FinalHeight(h4, detail_noise)
    IN  [p1_type |-> p1t, p2_type |-> p2t, boundary_dist |-> bd, dot |-> dot,
         mountain_sample |-> sample, detail_noise |-> detail_noise,
         h_blend |-> h3, h_tect |-> h4, final_h |-> fh,
         color |-> BiomeColor(fh)]

\* Lines 297-312: the position written back and the colour pushed.
VertexOutput(dir, syn) ==
    [pos |-> VScale(dir, RADIUS + syn.final_h),
     color |-> ToLinear(syn.color),
     syn |-> syn]

(***************************************************************************)
(* The noise source.  Fbm<Perlin> is the noise crate's; the model keeps    *)
(* what the program relies on: a value in [-1, 1] that is a function of    *)
(* the seed and the sample point alone.                                    *)
(***************************************************************************)
NoiseGet(sd, p) ==
    (((sd + 1) * (3 * p[1] + 5 * p[2] + 7 * p[3]) + 611 * sd) % (2 * One + 1))
        - One

(***************************************************************************)
(* apply_tectonic_deformation, steps 1 and 2                               *)
(***************************************************************************)
warp_strength == 150

\* Step 1: the three samples at frequency 1.5 with the axes rotated.
WarpNoise(sd, dir) ==
    LET a == Mul(dir[1], 1500)
        b == Mul(dir[2], 1500)
        c == Mul(dir[3], 1500)
    IN  VScale(<<NoiseGet(sd, <<a, b, c>>),
                 NoiseGet(sd, <<b, c, a>>),
                 NoiseGet(sd, <<c, a, b>>)>>, warp_strength)
Warp(sd, dir) == Normalize(VAdd(dir, WarpNoise(sd, dir)))

\* Step 2, the body of the loop over plates: the running two smallest
\* distances.  Plate indices are 1-based here (the code's index plus one).
ScanStepNoShift(st, idx, d) ==
    IF d < st.dist_1
    THEN [dist_1 |-> d, dist_2 |-> st.dist_2, p1_idx |-> idx, p2_idx |-> st.p2_idx]
    ELSE IF d < st.dist_2
    THEN [st EXCEPT !.dist_2 = d, !.p2_idx = idx]
    ELSE st
ScanStep(st, idx, d) ==
    IF d < st.dist_1
    THEN [dist_1 |-> d, dist_2 |-> st.dist_1, p1_idx |-> idx, p2_idx |-> st.p1_idx]
    ELSE IF d < st.dist_2
    THEN [st EXCEPT !.dist_2 = d, !.p2_idx = idx]
    ELSE st

\* Lines 198-201: the loop's variables before the first plate.
ScanStart == [dist_1 |-> F32_MAX, dist_2 |-> F32_MAX, p1_idx |-> 1, p2_idx |-> 1]

\* The whole loop over a plate slice, from its first n plates.
RECURSIVE ScanPlates(_, _, _)
ScanPlates(pl, w, n) ==
    IF n = 0 THEN ScanStart
    ELSE ScanStep(ScanPlates(pl, w, n - 1), n, Distance(w, pl[n].center))

\* Lines 216-295: the inputs steps 3 to 5 read, from the scan's result.
PointInputs(pl, sd, dir, st) ==
    [p1_type |-> pl[st.p1_idx].plate_type,
     p2_type |-> pl[st.p2_idx].plate_type,
     boundary_dist |-> st.dist_2 - st.dist_1,
     dot |-> Dot(pl[st.p1_idx].drift_dir, pl[st.p2_idx].drift_dir),
     mountain_sample |-> NoiseGet(sd, VScale(dir, 15 * One)),
     detail_noise |-> NoiseGet(sd, VScale(dir, 4 * One))]

SynthesizeInputs(in) ==
    Synthesize(in.p1_type, in.p2_type, in.boundary_dist, in.dot,
               in.mountain_sample, in.detail_noise)

\* The body of the loop over positions for one vertex, as a function of the
\* plate slice, the noise source and the vertex's position.
DeformScanned(pl, sd, dir, st) ==
    VertexOutput(dir, SynthesizeInputs(PointInputs(pl, sd, dir, st)))
DeformVertex(pl, sd, position) ==
    LET dir == Normalize(position)
    IN  DeformScanned(pl, sd, dir, ScanPlates(pl, Warp(sd, dir), Len(pl)))

(***************************************************************************)
(* Face and create_chunk_mesh                                              *)
(***************************************************************************)
UnitX == <<One, 0, 0>>
UnitY == <<0, One, 0>>
UnitZ == <<0, 0, One>>

Faces == {"Front", "Back", "Left", "Right", "Up", "Down"}

\* Face::get_vectors: (origin, right, up).
GetVectors(face) ==
    CASE face = "Front" -> <<UnitZ, UnitX, UnitY>>
      [] face = "Back"  -> <<VNeg(UnitZ), VNeg(UnitX), UnitY>>
      [] face = "Left"  -> <<VNeg(UnitX), UnitZ, UnitY>>
      [] face = "Right" -> <<UnitX, VNeg(UnitZ), UnitY>>
      [] face = "Up"    -> <<UnitY, UnitX, VNeg(UnitZ)>>
      [] face = "Down"  -> <<VNeg(UnitY), UnitX, UnitZ>>

\* Bounds of the model: the program sets NUM_PLATES = 15, CHUNKS_PER_FACE = 4
\* and CHUNK_RESOLUTION = 32.
MaxPlates == 2
MaxChunksPerFace == 1
MaxResolution == 1
\* The longest plate slice handed to apply_tectonic_deformation on its own.
MaxSlice == 3

NUM_PLATES == MaxPlates
CHUNKS_PER_FACE == MaxChunksPerFace
CHUNK_RESOLUTION == MaxResolution

\* The vertex at grid place (x, y) of a chunk: lines 153-160.
ChunkVertex(face, chunk_x, chunk_y, chunks_per_face, res, x, y) ==
    LET vecs == GetVectors(face)
        local_x == Div(Div(x * One, res * One) + chunk_x * One, chunks_per_face * One)
        local_y == Div(Div(y * One, res * One) + chunk_y * One, chunks_per_face * One)
        p == VAdd(VAdd(vecs[1], VScale(vecs[2], Mul(local_x, 2 * One) - One)),
                  VScale(vecs[3], Mul(local_y, 2 * One) - One))
    IN  VScale(Normalize(p), RADIUS)

\* create_chunk_mesh: the positions, row by row (y outer, x inner).
CreateChunkMesh(face, chunk_x, chunk_y, chunks_per_face, res) ==
    [n \in 1..((res + 1) * (res + 1)) |->
        ChunkVertex(face, chunk_x, chunk_y, chunks_per_face, res,
                    (n - 1) % (res + 1), (n - 1) \div (res + 1))]

(***************************************************************************)
(* State                                                                   *)
(***************************************************************************)
VARIABLES
    pc,          \* where the run stands
    plates,      \* Vec<Plate>
    seed,        \* the seed of the noise source
    chunk,       \* the chunk whose mesh is in hand: (face, x, y)
    mesh0,       \* the positions create_chunk_mesh gave that mesh
    positions,   \* the mesh's ATTRIBUTE_POSITION, rewritten in place
    new_colors,  \* the colours pushed so far
    k,           \* the place of positions.iter_mut(), from 1
    v, warped_v, i, dist_1, dist_2, p1_idx, p2_idx,  \* the vertex's locals
    inp,         \* the inputs of steps 3 to 5 of a point taken on its own
    out          \* what was computed for the last point

world == <<plates, seed>>
meshv == <<chunk, mesh0, positions, new_colors, k>>
locals == <<v, warped_v, i, dist_1, dist_2, p1_idx, p2_idx>>
vars == <<pc, world, meshv, locals, inp, out>>

NoChunk == [face |-> "Front", x |-> 0, y |-> 0]
NoInputs == [p1_type |-> Oceanic, p2_type |-> Oceanic, boundary_dist |-> 0,
             dot |-> 0, mountain_sample |-> 0, detail_noise |-> 0,
             dir |-> <<0, 0, 0>>]
NoOutput == [pos |-> <<0, 0, 0>>, color |-> <<>>, syn |-> <<>>]

LocalsUnset ==
    /\ v = <<0, 0, 0>> /\ warped_v = <<0, 0, 0>> /\ i = 0
    /\ dist_1 = F32_MAX /\ dist_2 = F32_MAX /\ p1_idx = 1 /\ p2_idx = 1
MeshUnset ==
    /\ chunk = NoChunk /\ mesh0 = <<>> /\ positions = <<>>
    /\ new_colors = <<>> /\ k = 1

(***************************************************************************)
(* generate_plates and the seed (setup_globe, lines 62-67)                 *)
(***************************************************************************)
\* The draws of a plate's six rng.random_range(-1.0..1.0): the vector of the
\* center and the vector of the drift, before normalize().
PlateDraws == {[center |-> <<600, 800, 0>>, drift |-> <<-500, -500, 500>>],
               [center |-> <<-500, -500, 500>>, drift |-> <<600, 800, 0>>]}
Seeds == {0, 1}

GeneratePlate ==
    /\ pc = "generate"
    /\ Len(plates) < NUM_PLATES
    /\ \E continental \in BOOLEAN, draw \in PlateDraws :
          plates' = Append(plates,
                           [center |-> Normalize(draw.center),
                            plate_type |-> IF continental THEN Continental
                                                          ELSE Oceanic,
                            drift_dir |-> Normalize(draw.drift)])
    /\ UNCHANGED <<pc, seed, meshv, locals, inp, out>>

SeedNoise ==
    /\ pc = "generate"
    /\ Len(plates) = NUM_PLATES
    /\ seed' \in Seeds
    /\ pc' = "chunk"
    /\ UNCHANGED <<plates, meshv, locals, inp, out>>

(***************************************************************************)
(* setup_globe's loop over chunks and apply_tectonic_deformation           *)
(***************************************************************************)
\* Lines 83-94 and 177-180: a chunk's mesh is created and handed over.  The
\* program takes the chunks in face, y, x order; the model takes any chunk.
StartChunk ==
    /\ pc = "chunk"
    /\ \E face \in Faces, x \in 0..(CHUNKS_PER_FACE - 1),
          y \in 0..(CHUNKS_PER_FACE - 1) :
          /\ chunk' = [face |-> face, x |-> x, y |-> y]
          /\ mesh0' = CreateChunkMesh(face, x, y, CHUNKS_PER_FACE, CHUNK_RESOLUTION)
          /\ positions' = mesh0'
    /\ new_colors' = <<>>
    /\ k' = 1
    /\ pc' = "vertex"
    /\ UNCHANGED <<world, locals, inp, out>>

\* Lines 183-201 with the loop variables left as the last vertex set them.
BeginVertexNoReset ==
    /\ pc = "vertex"
    /\ k <= Len(positions)
    /\ v' = Normalize(positions[k])
    /\ warped_v' = Warp(seed, v')
    /\ i' = 1
    /\ pc' = "scan"
    /\ UNCHANGED <<world, meshv, dist_1, dist_2, p1_idx, p2_idx, inp, out>>

\* Lines 183-201: the direction, the warp, and the loop variables.
BeginVertex ==
    /\ pc = "vertex"
    /\ k <= Len(positions)
    /\ v' = Normalize(positions[k])
    /\ warped_v' = Warp(seed, v')
    /\ dist_1' = ScanStart.dist_1
    /\ dist_2' = ScanStart.dist_2
    /\ p1_idx' = ScanStart.p1_idx
    /\ p2_idx' = ScanStart.p2_idx
    /\ i' = 1
    /\ pc' = "scan"
    /\ UNCHANGED <<world, meshv, inp, out>>

ScanState == [dist_1 |-> dist_1, dist_2 |-> dist_2, p1_idx |-> p1_idx, p2_idx |-> p2_idx]

\* Lines 203-214: one plate of the loop.
ScanPlate ==
    /\ pc = "scan"
    /\ i <= Len(plates)
    /\ LET st == ScanStep(ScanState, i, Distance(warped_v, plates[i].center))
       IN  /\ dist_1' = st.dist_1
           /\ dist_2' = st.dist_2
           /\ p1_idx' = st.p1_idx
           /\ p2_idx' = st.p2_idx
    /\ i' = i + 1
    /\ UNCHANGED <<pc, world, meshv, v, warped_v, inp, out>>

\* Lines 216-312: steps 3 to 5, the position written back, the colour pushed.
WriteVertex ==
    /\ pc = "scan"
    /\ i > Len(plates)
    /\ out' = DeformScanned(plates, seed, v, ScanState)
    /\ positions' = [positions EXCEPT ![k] = out'.pos]
    /\ new_colors' = Append(new_colors, out'.color)
    /\ k' = k + 1
    /\ pc' = "vertex"
    /\ UNCHANGED <<world, chunk, mesh0, locals, inp>>

\* Lines 315-317 and 97-101: the colours are attached and the chunk spawned.
FinishChunk ==
    /\ pc = "vertex"
    /\ k > Len(positions)
    /\ pc' = "chunk"
    /\ UNCHANGED <<world, meshv, locals, inp, out>>

Init ==
    /\ pc = "generate"
    /\ plates = <<>>
    /\ seed = 0
    /\ MeshUnset
    /\ LocalsUnset
    /\ inp = NoInputs
    /\ out = NoOutput

Next ==
    \/ GeneratePlate
    \/ SeedNoise
    \/ StartChunk
    \/ BeginVertex
    \/ ScanPlate
    \/ WriteVertex
    \/ FinishChunk

Spec == Init /\ [][Next]_vars

(***************************************************************************)
(* apply_tectonic_deformation on a one-vertex mesh and any plate slice     *)
(***************************************************************************)
SliceCenters == {<<One, 0, 0>>, <<0, One, 0>>, <<600, 800, 0>>}
MoreCenters == SliceCenters \cup {<<-One, 0, 0>>}
SliceDrifts == {<<One, 0, 0>>, <<-One, 0, 0>>}
SlicePlates == [center : SliceCenters, plate_type : PlateType, drift_dir : SliceDrifts]
QueryPositions == {VScale(<<0, 0, One>>, RADIUS), VScale(<<707, 707, 0>>, RADIUS)}

ScanInit ==
    /\ pc = "vertex"
    /\ \E n \in 1..MaxSlice : plates \in [1..n -> SlicePlates]
    /\ seed \in Seeds
    /\ chunk = NoChunk
    /\ \E q \in QueryPositions : mesh0 = <<q>>
    /\ positions = mesh0
    /\ new_colors = <<>>
    /\ k = 1
    /\ LocalsUnset
    /\ inp = NoInputs
    /\ out = NoOutput

ScanNext ==
    \/ BeginVertex
    \/ ScanPlate
    \/ WriteVertex
    \/ FinishChunk

SpecScan == ScanInit /\ [][ScanNext]_vars

\* The same on the slices whose centers are pairwise distinct.
DistinctCenters(pl) ==
    \A a, b \in 1..Len(pl) : pl[a].center = pl[b].center => a = b

DistinctInit ==
    /\ pc = "vertex"
    /\ \E n \in 1..MaxSlice :
          plates \in {pl \in [1..n -> [center : MoreCenters, plate_type : PlateType,
                                       drift_dir : SliceDrifts]] :
                         DistinctCenters(pl)}
    /\ seed \in Seeds
    /\ chunk = NoChunk
    /\ \E q \in QueryPositions : mesh0 = <<q>>
    /\ positions = mesh0
    /\ new_colors = <<>>
    /\ k = 1
    /\ LocalsUnset
    /\ inp = NoInputs
    /\ out = NoOutput

SpecDistinct == DistinctInit /\ [][ScanNext]_vars

(***************************************************************************)
(* Steps 3 to 5 on a point taken on its own                                *)
(***************************************************************************)
BoundaryDists == {0, 25, 50, 80, 100, 112, 150, 200, 225, 250, 300, 337, 360,
                  400, 449, 450, 451, 700, 1200, 2000}
DotVals == {-1000, -201, -200, -100, -1, 0, 99, 100, 200, 201, 1000}
NoiseVals == {-1000, -750, -501, -500, -499, -250, 0, 500, 1000}
Directions == {<<One, 0, 0>>, <<-600, 0, 800>>}

HeightInit ==
    /\ pc = "point"
    /\ inp \in [p1_type : PlateType, p2_type : PlateType,
                boundary_dist : BoundaryDists, dot : DotVals,
                mountain_sample : NoiseVals, detail_noise : NoiseVals,
                dir : Directions]
    /\ out = NoOutput
    /\ plates = <<>>
    /\ seed = 0
    /\ MeshUnset
    /\ LocalsUnset

SynthesizePoint ==
    /\ pc = "point"
    /\ pc' = "synthesized"
    /\ out' = VertexOutput(inp.dir, SynthesizeInputs(inp))
    /\ UNCHANGED <<world, meshv, locals, inp>>

HeightNext == SynthesizePoint

SpecHeight == HeightInit /\ [][HeightNext]_vars

(***************************************************************************)
(* Properties                                                              *)
(***************************************************************************)
PlateIdx == 1..Len(plates)
ScanDone == pc = "scan" /\ i > Len(plates)
Written == pc = "vertex" /\ k = 2
Synthesized == pc = "synthesized"
DistTo(j) == Distance(warped_v, plates[j].center)

\* C1: once generate_plates has returned, any two distinct plates have centers
\* a positive distance apart (no two plates share a center).
C1_PlatesSeparated ==
    pc # "generate" =>
        \A a, b \in PlateIdx :
            a # b => Distance(plates[a].center, plates[b].center) > 0

\* C2: when the loop over at least two plates finishes, p1_idx # p2_idx,
\* dist_1 and dist_2 are the distances from the warped point to plates p1_idx
\* and p2_idx, and dist_1 <= dist_2 <= the distance to every other plate, so
\* boundary_dist = dist_2 - dist_1 >= 0.
C2_TwoNearest ==
    (ScanDone /\ Len(plates) >= 2) =>
        /\ p1_idx \in PlateIdx /\ p2_idx \in PlateIdx
        /\ p1_idx # p2_idx
        /\ dist_1 = DistTo(p1_idx)
        /\ dist_2 = DistTo(p2_idx)
        /\ dist_1 <= dist_2
        /\ \A j \in PlateIdx \ {p1_idx, p2_idx} : dist_2 <= DistTo(j)
        /\ dist_2 - dist_1 >= 0

\* The loop has run over three plates and moved both indices off the first
\* plate, with a third plate no nearer than the second nearest.
C2_Witness ==
    /\ ScanDone /\ Len(plates) = 3
    /\ p1_idx = 3 /\ p2_idx = 2
    /\ dist_1 < dist_2 /\ dist_2 <= DistTo(1)

\* The loop has finished with the two nearest plates at equal distance.
C2_TieReached ==
    ScanDone /\ Len(plates) >= 2 /\ dist_1 = dist_2

\* C3: the final height is >= -0.9 whatever the plate types, drift, boundary
\* distance and noise, and the position written is the direction scaled by
\* RADIUS + final height, a scale never below RADIUS - 0.9.
C3_HeightFloor ==
    Synthesized =>
        /\ out.syn.final_h >= -900
        /\ \A c \in 1..3 : out.pos[c] = Mul(inp.dir[c], RADIUS + out.syn.final_h)
        /\ RADIUS + out.syn.final_h >= RADIUS - 900
        /\ Length(out.pos) >= Mul(Length(inp.dir), RADIUS - 900) - 1

\* A point whose height before the floor is below -0.9.
C3_Witness ==
    /\ Synthesized
    /\ out.syn.h_tect + Mul(inp.detail_noise, 350) < -900
    /\ out.syn.final_h = -900

\* The band upper bounds, ascending, and the colours of the eight bands.
BandBounds == <<-450, -180, 0, 35, 180, 400, 600>>
BandColors == <<DeepTrench, Ocean, Shallow, Beach, Plains, Mountains, HighRock, Snow>>
\* The first band whose upper bound is above h; the bounds in `inclusive'
\* also take h equal to them.  The last band takes the rest.
FirstBand(h, inclusive) ==
    LET hit == {b \in 1..Len(BandBounds) :
                    h < BandBounds[b] \/ (b \in inclusive /\ h = BandBounds[b])}
    IN  IF hit = {} THEN Len(BandColors)
        ELSE CHOOSE b \in hit : \A c \in hit : b <= c

\* C4 as claimed: the colour is that of the first band whose upper bound is
\* strictly greater than the final height, also at a height equal to a bound.
C4_FirstBandExceeding ==
    Synthesized => out.syn.color = BandColors[FirstBand(out.syn.final_h, {})]

\* C4 as amended: the colour is a function of the final height alone, the
\* first band whose upper bound is strictly greater than the height, except
\* that the two lowest bounds -0.45 and -0.18 are inclusive (a height equal
\* to one of them gets deep trench, resp. ocean); below -0.45 deep trench,
\* at or above 0.6 snow.
C4_Bands ==
    Synthesized =>
        /\ out.syn.color = BandColors[FirstBand(out.syn.final_h, {1, 2})]
        /\ out.color = ToLinear(out.syn.color)
        /\ out.syn.final_h < -450 => out.syn.color = DeepTrench
        /\ out.syn.final_h >= 600 => out.syn.color = Snow

\* A point whose final height is exactly the bound -0.45 or -0.18.
C4_Witness ==
    Synthesized /\ out.syn.final_h \in {-450, -180}

\* C5: for a Continental/Continental pair with dot = -1 on the boundary
\* (boundary_dist = 0), f = 1 and the ridge term added is >= the ridge term
\* added at every other f for the same mountain noise.
C5_RidgeMaxAtBoundary ==
    (/\ Synthesized
     /\ inp.p1_type = Continental /\ inp.p2_type = Continental
     /\ inp.dot = -One /\ inp.boundary_dist = 0) =>
        /\ BoundaryF(inp.boundary_dist) = One
        /\ \A bd \in BoundaryDists :
              out.syn.h_tect - out.syn.h_blend >=
                  TectonicDelta(Continental, Continental, bd, inp.dot,
                                inp.mountain_sample)

\* C6: inside the boundary zone, with -0.2 <= dot <= 0.2, the match of step 4
\* leaves the height unchanged for every ordered pair of plate types.
C6_DeadZone ==
    (/\ Synthesized
     /\ inp.boundary_dist < edge_threshold
     /\ inp.dot >= -200 /\ inp.dot <= 200) =>
        out.syn.h_tect = out.syn.h_blend

\* C7: with the plates and the noise source fixed, what is written for a
\* vertex is a function of its input position alone (the same in whichever
\* chunk, after whichever vertices); the vertices not yet reached are as
\* created, what was written stays as written, and no step after generation
\* changes the plates or the seed.
C7_WrittenInv ==
    pc = "vertex" =>
        /\ Len(positions) = Len(mesh0)
        /\ Len(new_colors) = k - 1
        /\ k > 1 =>
              LET r == DeformVertex(plates, seed, mesh0[k - 1])
              IN  positions[k - 1] = r.pos /\ new_colors[k - 1] = r.color
        /\ \A j \in k..Len(positions) : positions[j] = mesh0[j]
C7_Kept ==
    /\ pc # "generate" => (plates' = plates /\ seed' = seed)
    /\ pc \in {"vertex", "scan"} =>
          /\ mesh0' = mesh0
          /\ \A j \in 1..(k - 1) :
                positions'[j] = positions[j] /\ new_colors'[j] = new_colors[j]
C7_PositionOnly == []C7_WrittenInv /\ [][C7_Kept]_vars

\* Two vertices of a chunk have been written one after the other, moved off
\* their created positions and coloured differently.
C7_Witness ==
    /\ pc = "vertex" /\ k >= 3
    /\ positions[1] # mesh0[1] /\ positions[2] # mesh0[2]
    /\ new_colors[1] # new_colors[2]

Perms(n) == {q \in [1..n -> 1..n] : \A a, b \in 1..n : q[a] = q[b] => a = b}
Permute(pl, q) == [n \in 1..Len(pl) |-> pl[q[n]]]
\* Every order of the plates in hand gives the loop the same two plates and
\* the vertex the same output as the order in hand gave.
SameUnderEveryOrder ==
    LET dir == Normalize(mesh0[1])
        w == Warp(seed, dir)
    IN  \A q \in Perms(Len(plates)) :
            LET pl == Permute(plates, q)
                st == ScanPlates(pl, w, Len(pl))
            IN  /\ <<pl[st.p1_idx], pl[st.p2_idx]>> = <<plates[p1_idx], plates[p2_idx]>>
                /\ DeformScanned(pl, seed, dir, st) = out

\* C8 as claimed: for every permutation of the same plates, ties in distance
\* included, the plates chosen and the height, position and colour written
\* are the same.
C8_OrderIrrelevant ==
    Written => SameUnderEveryOrder

\* The nearest plate is strictly nearer than the second nearest, which is
\* strictly nearer than every other plate.
StrictTwoNearest ==
    \/ Len(plates) = 1
    \/ /\ dist_1 < dist_2
       /\ \A j \in PlateIdx \ {p1_idx, p2_idx} : dist_2 < DistTo(j)

\* C8 as amended: when the nearest plate is strictly nearer to the warped
\* point than the second nearest, and that one strictly nearer than every
\* other plate, the plates chosen and the result are the same for every
\* permutation of the plates.
C8_OrderIrrelevantNoTies ==
    (Written /\ StrictTwoNearest) => SameUnderEveryOrder

\* Three plates of which the last two are the nearest, in strict order, and
\* of different types.
C8_Witness ==
    /\ Written /\ StrictTwoNearest /\ Len(plates) = 3
    /\ p1_idx = 3 /\ p2_idx = 2
    /\ plates[2].plate_type # plates[3].plate_type

\* Two plates with different centers tie for nearest and differ in type.
C8_TieDistinctCenters ==
    /\ Written /\ Len(plates) = 2 /\ dist_1 = dist_2
    /\ plates[1].center # plates[2].center
    /\ plates[1].plate_type # plates[2].plate_type

\* C9: at boundary_dist >= edge_threshold the height before the detail noise
\* is the base constant of p1's type, whatever p2's type and the drift.
C9_InteriorBase ==
    (Synthesized /\ inp.boundary_dist >= edge_threshold) =>
        out.syn.h_tect = (IF inp.p1_type = Continental THEN 120 ELSE -350)

\* An interior point whose neighbour is of the other type and converging.
C9_Witness ==
    /\ Synthesized /\ inp.boundary_dist >= edge_threshold
    /\ inp.p1_type # inp.p2_type /\ inp.dot = -One

RidgeBranch ==
    <<inp.p1_type, inp.p2_type>> \in
        {<<Continental, Continental>>, <<Continental, Oceanic>>, <<Oceanic, Oceanic>>}

\* C10 as claimed: for every noise value in [-1, 1] the factor
\* 0.6 + noise * 1.2 is positive and the ridge terms never lower the height.
C10_FactorPositive ==
    Synthesized =>
        /\ MountainNoise(inp.mountain_sample) > 0
        /\ RidgeBranch => out.syn.h_tect >= out.syn.h_blend

\* C10 as amended: the factor 0.6 + noise * 1.2 is positive exactly for the
\* noise values above -0.5 (zero at -0.5, negative below); for those the
\* sin^2 terms of the C/C and C/O branches never lower the height, nor does
\* the sin term of the O/O branch at f < 1.
C10_FactorPositiveAboveHalf ==
    Synthesized =>
        /\ MountainNoise(inp.mountain_sample) > 0 <=> inp.mountain_sample > -500
        /\ (inp.mountain_sample > -500 /\ RidgeBranch
            /\ (inp.p1_type = Oceanic => BoundaryF(inp.boundary_dist) < One))
               => out.syn.h_tect >= out.syn.h_blend

\* A ridge has been raised with a noise value between -0.5 and 0.
C10_Witness ==
    /\ Synthesized /\ RidgeBranch
    /\ inp.mountain_sample > -500 /\ inp.mountain_sample < 0
    /\ out.syn.h_tect > out.syn.h_blend

==========================================================================
